---------------------------- MODULE Spec2Model ----------------------------
(***************************************************************************)
(* Listener reconciliation of the alicloud SLB resource                    *)
(* (alicloud/resource_alicloud_slb.go): fingerprinting and diffing of      *)
(* listener sets, per-protocol validation and request construction, the    *)
(* ordered delete / create / poll / start calls of resourceAliyunSlbUpdate *)
(* and the read-back of the remote listeners into the resource state.      *)
(*                                                                         *)
(* Strings are TLA+ strings; a listener map (map[string]interface{}) is a  *)
(* function from schema keys to values, a Go struct a record with the Go   *)
(* field names.  A nil error is the string "nil".                          *)
(***************************************************************************)
EXTENDS Integers, Sequences, FiniteSets, TLC

VARIABLES
    desired,    \* n of d.GetChange("listener"): the configured listener set
    state,      \* o of d.GetChange("listener"): the listener set of the state
    id,         \* d.Id(): the load balancer id, "" once the resource is gone
    remote,     \* the load balancer's listeners on the remote side, by port
    remove,     \* resourceAliyunSlbUpdate's local remove ([]*Listener)
    add,        \* resourceAliyunSlbUpdate's local add ([]*Listener)
    pc,         \* the position of the pass
    i,          \* the index of the range loop at pc
    args,       \* createListener's local args: the request built for add[i]
    calls,      \* history: the listener API calls issued so far, in order
    err,        \* the error the pass returned, NoErr while it has none
    in1, in2,   \* inputs of the function under test (function specifications)
    out1, out2  \* its results

vars == <<desired, state, id, remote, remove, add, pc, i, args, calls, err,
          in1, in2, out1, out2>>

fnVars == <<in1, in2, out1, out2>>

-----------------------------------------------------------------------------
(* Bounds *)

\* the largest number of listeners in the configured set
MaxListeners == 2

-----------------------------------------------------------------------------
(* Values of the slb package and of the schema *)

OnFlag == "on"
OffFlag == "off"
InsertStickySessionType == "insert"
ServerStickySessionType == "server"
WRRScheduler == "wrr"
TCPHealthCheckType == "tcp"
Stopped == "stopped"
Running == "running"

Tcp == "tcp"
Udp == "udp"
Http == "http"
Https == "https"

\* Tcp, Udp, Http and Https are the values the schema's
\* validateInstanceProtocol admits for lb_protocol

\* the keys of one element of the "listener" set, with the zero value of
\* each key's schema type
IntKeys ==
    {"instance_port", "lb_port", "bandwidth", "cookie_timeout",
     "persistence_timeout", "health_check_connect_port", "healthy_threshold",
     "unhealthy_threshold", "health_check_timeout", "health_check_interval"}

StringKeys ==
    {"lb_protocol", "scheduler", "sticky_session", "sticky_session_type",
     "cookie", "health_check", "health_check_type", "health_check_domain",
     "health_check_uri", "health_check_http_code", "ssl_certificate_id"}

ListenerKeys == IntKeys \cup StringKeys

ZeroValue(k) == IF k \in IntKeys THEN 0 ELSE ""

\* the schema's Default of a key, its zero value when it has none
SchemaDefault(k) ==
    CASE k = "scheduler" -> WRRScheduler
      [] k = "sticky_session" -> OffFlag
      [] k = "health_check" -> OffFlag
      [] k = "health_check_type" -> TCPHealthCheckType
      [] OTHER -> ZeroValue(k)

NoErr == "nil"
LoadBalancerId == "lb-1"
NoListener == [status |-> "absent"]

-----------------------------------------------------------------------------
(* strings.ToLower and strings.ToUpper on the protocol names *)

ToLower(s) ==
    CASE s = "TCP" -> "tcp"
      [] s = "UDP" -> "udp"
      [] s = "HTTP" -> "http"
      [] s = "HTTPS" -> "https"
      [] s = "Http" -> "http"
      [] OTHER -> s

ToUpper(s) ==
    CASE s = "tcp" -> "TCP"
      [] s = "udp" -> "UDP"
      [] s = "http" -> "HTTP"
      [] s = "https" -> "HTTPS"
      [] s = "Http" -> "HTTP"
      [] OTHER -> s

-----------------------------------------------------------------------------
(* resourceAliyunSlbListenerHash and the set difference on its values *)

\* hashcode.String: CRC-32 of the buffer, taken here to be collision free
HashcodeString(s) == s

MutHashNoLower(m) ==
    HashcodeString(
        ToString(m["instance_port"]) \o "-"
        \o ToString(m["lb_port"]) \o "-"
        \o m["lb_protocol"] \o "-"
        \o ToString(m["bandwidth"]) \o "-"
        \o (IF "ssl_certificate_id" \in DOMAIN m
            THEN m["ssl_certificate_id"] \o "-" ELSE ""))

resourceAliyunSlbListenerHash(m) ==
    HashcodeString(
        ToString(m["instance_port"]) \o "-"
        \o ToString(m["lb_port"]) \o "-"
        \o ToLower(m["lb_protocol"]) \o "-"
        \o ToString(m["bandwidth"]) \o "-"
        \o (IF "ssl_certificate_id" \in DOMAIN m
            THEN m["ssl_certificate_id"] \o "-" ELSE ""))

\* schema.Set.Difference as resourceAliyunSlbUpdate uses it: the elements of s
\* whose hash code is no key of other
Difference(s, other) ==
    {x \in s : \A y \in other :
        resourceAliyunSlbListenerHash(y) # resourceAliyunSlbListenerHash(x)}

\* a schema.Set holds one element per hash code
IsSet(s) ==
    \A x, y \in s :
        resourceAliyunSlbListenerHash(x) = resourceAliyunSlbListenerHash(y)
            => x = y

-----------------------------------------------------------------------------
(* expandListeners: a listener map as a Listener struct *)

\* the Listener field a schema key is stored in
FieldOfKey ==
    [instance_port |-> "InstancePort",
     lb_port |-> "LoadBalancerPort",
     lb_protocol |-> "Protocol",
     bandwidth |-> "Bandwidth",
     scheduler |-> "Scheduler",
     sticky_session |-> "StickySession",
     sticky_session_type |-> "StickySessionType",
     cookie_timeout |-> "CookieTimeout",
     cookie |-> "Cookie",
     persistence_timeout |-> "PersistenceTimeout",
     health_check |-> "HealthCheck",
     health_check_type |-> "HealthCheckType",
     health_check_domain |-> "HealthCheckDomain",
     health_check_uri |-> "HealthCheckURI",
     health_check_connect_port |-> "HealthCheckConnectPort",
     healthy_threshold |-> "HealthyThreshold",
     unhealthy_threshold |-> "UnhealthyThreshold",
     health_check_timeout |-> "HealthCheckTimeout",
     health_check_interval |-> "HealthCheckInterval",
     health_check_http_code |-> "HealthCheckHttpCode",
     ssl_certificate_id |-> "SSLCertificateId"]

ListenerFields == {FieldOfKey[k] : k \in ListenerKeys}

KeyOfFieldMap ==
    [f \in ListenerFields |-> CHOOSE k \in ListenerKeys : FieldOfKey[k] = f]

KeyOfField(f) == KeyOfFieldMap[f]

\* one element: every field takes the value of its key, the zero value of
\* its type when the map has no such key
ExpandListener(m) ==
    [f \in ListenerFields |->
        IF KeyOfField(f) \in DOMAIN m THEN m[KeyOfField(f)]
        ELSE ZeroValue(KeyOfField(f))]

\* a list of maps as a list of Listeners, in the list's order
expandListeners(configured) ==
    [n \in 1..Len(configured) |-> ExpandListener(configured[n])]

\* the error expandListeners returns for an element it rejects: one that
\* carries a certificate under a protocol other than https
ErrExpand == "ssl_certificate_id may be set only when protocol is https"

ExpandError(m) ==
    IF "ssl_certificate_id" \in DOMAIN m /\ m["ssl_certificate_id"] # ""
       /\ m["lb_protocol"] # Https
    THEN ErrExpand
    ELSE NoErr

\* the second result of expandListeners
expandListenersError(configured) ==
    IF \E n \in 1..Len(configured) : ExpandError(configured[n]) # NoErr
    THEN ErrExpand
    ELSE NoErr

\* the first result of expandListeners as lines 348-349 take it, the second
\* assigned to _: nil when the conversion fails
ExpandDiscardingError(configured) ==
    IF expandListenersError(configured) # NoErr
    THEN <<>>
    ELSE expandListeners(configured)

-----------------------------------------------------------------------------
(* The request builders *)

getTcpListenerArgs(loadBalancerId, listener) ==
    [LoadBalancerId |-> loadBalancerId,
     ListenerPort |-> listener.LoadBalancerPort,
     BackendServerPort |-> listener.InstancePort,
     Bandwidth |-> listener.Bandwidth,
     Scheduler |-> listener.Scheduler,
     PersistenceTimeout |-> listener.PersistenceTimeout,
     HealthCheckType |-> listener.HealthCheckType,
     HealthCheckDomain |-> listener.HealthCheckDomain,
     HealthCheckURI |-> listener.HealthCheckURI,
     HealthCheckConnectPort |-> listener.HealthCheckConnectPort,
     HealthyThreshold |-> listener.HealthyThreshold,
     UnhealthyThreshold |-> listener.UnhealthyThreshold,
     HealthCheckConnectTimeout |-> listener.HealthCheckTimeout,
     HealthCheckInterval |-> listener.HealthCheckInterval,
     HealthCheckHttpCode |-> listener.HealthCheckHttpCode]

getUdpListenerArgs(loadBalancerId, listener) ==
    [LoadBalancerId |-> loadBalancerId,
     ListenerPort |-> listener.LoadBalancerPort,
     BackendServerPort |-> listener.InstancePort,
     Bandwidth |-> listener.Bandwidth,
     PersistenceTimeout |-> listener.PersistenceTimeout,
     HealthCheckConnectTimeout |-> listener.HealthCheckTimeout,
     HealthCheckInterval |-> listener.HealthCheckInterval]

\* the ErrType values of a ListenerErr
HealthCheckErrType == "healthCheckErrType"
StickySessionErrType == "stickySessionErrType"
CookieTimeOutErrType == "cookieTimeOutErrType"
CookieErrType == "cookieErrType"

\* the zero value of slb.HTTPListenerType, the named result on an error path
ZeroHTTPListenerType ==
    [LoadBalancerId |-> "", ListenerPort |-> 0, BackendServerPort |-> 0,
     Bandwidth |-> 0, Scheduler |-> "", HealthCheck |-> "",
     StickySession |-> "", StickySessionType |-> "", CookieTimeout |-> 0,
     Cookie |-> "", HealthCheckDomain |-> "", HealthCheckURI |-> "",
     HealthCheckConnectPort |-> 0, HealthyThreshold |-> 0,
     UnhealthyThreshold |-> 0, HealthCheckTimeout |-> 0,
     HealthCheckInterval |-> 0, HealthCheckHttpCode |-> ""]

BuildHTTPListenerType(loadBalancerId, listener) ==
    [LoadBalancerId |-> loadBalancerId,
     ListenerPort |-> listener.LoadBalancerPort,
     BackendServerPort |-> listener.InstancePort,
     Bandwidth |-> listener.Bandwidth,
     Scheduler |-> listener.Scheduler,
     HealthCheck |-> listener.HealthCheck,
     StickySession |-> listener.StickySession,
     StickySessionType |-> listener.StickySessionType,
     CookieTimeout |-> listener.CookieTimeout,
     Cookie |-> listener.Cookie,
     HealthCheckDomain |-> listener.HealthCheckDomain,
     HealthCheckURI |-> listener.HealthCheckURI,
     HealthCheckConnectPort |-> listener.HealthCheckConnectPort,
     HealthyThreshold |-> listener.HealthyThreshold,
     UnhealthyThreshold |-> listener.UnhealthyThreshold,
     HealthCheckTimeout |-> listener.HealthCheckTimeout,
     HealthCheckInterval |-> listener.HealthCheckInterval,
     HealthCheckHttpCode |-> listener.HealthCheckHttpCode]

MutHealthCheckEmptyNoInterval(listener) ==
    /\ listener.HealthCheck = OnFlag
    /\ \/ listener.HealthCheckURI = ""
       \/ listener.HealthCheckDomain = ""
       \/ listener.HealthCheckConnectPort = 0
       \/ listener.HealthyThreshold = 0
       \/ listener.UnhealthyThreshold = 0
       \/ listener.HealthCheckTimeout = 0
       \/ listener.HealthCheckHttpCode = ""

\* the first if of getHttpListenerType: an enabled health check lacks a detail
HealthCheckEmpty(listener) ==
    /\ listener.HealthCheck = OnFlag
    /\ \/ listener.HealthCheckURI = ""
       \/ listener.HealthCheckDomain = ""
       \/ listener.HealthCheckConnectPort = 0
       \/ listener.HealthyThreshold = 0
       \/ listener.UnhealthyThreshold = 0
       \/ listener.HealthCheckTimeout = 0
       \/ listener.HealthCheckHttpCode = ""
       \/ listener.HealthCheckInterval = 0

MutStickySessionErrNoCookie(listener) ==
    IF listener.StickySession = OnFlag
    THEN IF listener.StickySessionType = ""
         THEN StickySessionErrType
         ELSE IF listener.StickySessionType = InsertStickySessionType
              THEN IF listener.CookieTimeout = 0
                   THEN CookieTimeOutErrType ELSE NoErr
              ELSE NoErr
    ELSE NoErr

\* the second if of getHttpListenerType: the ErrType it returns, "nil" for none
StickySessionErr(listener) ==
    IF listener.StickySession = OnFlag
    THEN IF listener.StickySessionType = ""
         THEN StickySessionErrType
         ELSE IF listener.StickySessionType = InsertStickySessionType
              THEN IF listener.CookieTimeout = 0
                   THEN CookieTimeOutErrType ELSE NoErr
              ELSE IF listener.StickySessionType = ServerStickySessionType
                   THEN IF listener.Cookie = "" THEN CookieErrType ELSE NoErr
                   ELSE NoErr
    ELSE NoErr

\* (listenType, err); err is the ErrType of the ListenerErr, "nil" for none
getHttpListenerType(loadBalancerId, listener) ==
    IF HealthCheckEmpty(listener)
    THEN [listenType |-> ZeroHTTPListenerType, err |-> HealthCheckErrType]
    ELSE IF StickySessionErr(listener) # NoErr
         THEN [listenType |-> ZeroHTTPListenerType,
               err |-> StickySessionErr(listener)]
         ELSE [listenType |-> BuildHTTPListenerType(loadBalancerId, listener),
               err |-> NoErr]

getHttpListenerArgs(loadBalancerId, listener) ==
    getHttpListenerType(loadBalancerId, listener)

\* the messages of createListener's errors
MsgHealthCheck ==
    "When the HealthCheck is on, then related HealthCheck parameter must have."
MsgStickySession ==
    "When the StickySession is on, then StickySessionType parameter must have."
MsgCookieTimeout ==
    "When the StickySession is on and StickySessionType is insert, then CookieTimeout parameter must have."
MsgCookie ==
    "When the StickySession is on and StickySessionType is server, then Cookie parameter must have."
MsgErrTypeNotFound == "slb listener check errtype not found."
MsgCertificate == "Server Certificated Id cann't be null"

\* createListener's closure errTypeJudge, on the ErrType of a ListenerErr
errTypeJudge(e) ==
    IF e # NoErr
    THEN CASE e = HealthCheckErrType -> MsgHealthCheck
           [] e = StickySessionErrType -> MsgStickySession
           [] e = CookieTimeOutErrType -> MsgCookieTimeout
           [] e = CookieErrType -> MsgCookie
           [] OTHER -> MsgErrTypeNotFound
    ELSE NoErr

MutHttpsRequestNoCertificateCheck(loadBalancerId, listener) ==
    LET r == getHttpListenerType(loadBalancerId, listener) IN
    IF errTypeJudge(r.err) # NoErr
    THEN [api |-> "", args |-> <<>>, err |-> errTypeJudge(r.err)]
    ELSE [api |-> "CreateLoadBalancerHTTPSListener",
          args |-> [f \in DOMAIN r.listenType \cup {"ServerCertificateId"} |->
                       IF f = "ServerCertificateId"
                       THEN listener.SSLCertificateId
                       ELSE r.listenType[f]],
          err |-> NoErr]

\* the https branch of createListener up to its create call
HttpsRequest(loadBalancerId, listener) ==
    LET r == getHttpListenerType(loadBalancerId, listener) IN
    IF errTypeJudge(r.err) # NoErr
    THEN [api |-> "", args |-> <<>>, err |-> errTypeJudge(r.err)]
    ELSE IF listener.SSLCertificateId = ""
         THEN [api |-> "", args |-> <<>>, err |-> MsgCertificate]
         ELSE [api |-> "CreateLoadBalancerHTTPSListener",
               args |-> [f \in DOMAIN r.listenType
                               \cup {"ServerCertificateId"} |->
                            IF f = "ServerCertificateId"
                            THEN listener.SSLCertificateId
                            ELSE r.listenType[f]],
               err |-> NoErr]

\* createListener up to its create call: the call it is about to issue (api,
\* "" when no branch matches the protocol) with its request, or the error it
\* returns before any call
CreateRequest(loadBalancerId, listener) ==
    IF listener.Protocol = ToLower("tcp")
    THEN [api |-> "CreateLoadBalancerTCPListener",
          args |-> getTcpListenerArgs(loadBalancerId, listener),
          err |-> NoErr]
    ELSE IF listener.Protocol = ToLower("http")
    THEN LET r == getHttpListenerArgs(loadBalancerId, listener) IN
         IF errTypeJudge(r.err) # NoErr
         THEN [api |-> "", args |-> <<>>, err |-> errTypeJudge(r.err)]
         ELSE [api |-> "CreateLoadBalancerHTTPListener",
               args |-> r.listenType, err |-> NoErr]
    ELSE IF listener.Protocol = ToLower("https")
    THEN HttpsRequest(loadBalancerId, listener)
    ELSE IF listener.Protocol = ToLower("udp")
    THEN [api |-> "CreateLoadBalancerUDPListener",
          args |-> getUdpListenerArgs(loadBalancerId, listener),
          err |-> NoErr]
    ELSE [api |-> "", args |-> <<>>, err |-> NoErr]

\* the protocol whose listener a create call makes
ProtocolOfApi(api) ==
    CASE api = "CreateLoadBalancerTCPListener" -> Tcp
      [] api = "CreateLoadBalancerHTTPListener" -> Http
      [] api = "CreateLoadBalancerHTTPSListener" -> Https
      [] api = "CreateLoadBalancerUDPListener" -> Udp
      [] OTHER -> ""

-----------------------------------------------------------------------------
(* The remote side: one listener per port, each the attributes it was      *)
(* created with, its protocol and its status                               *)

Ports == {80, 443}

IsListener(r) == r.status # "absent"

\* the listener a successful create call leaves on the remote side
CreatedListener(req) ==
    [status |-> Stopped, proto |-> ProtocolOfApi(req.api), attrs |-> req.args]

\* Describe<protocol>ListenerAttribute(port): the attributes of the port's
\* listener when it is of that protocol, <<>> (a nil response, with the
\* error UnsupportedProtocalPort) when it is not
DescribeListenerAttribute(rem, port, protocol) ==
    IF IsListener(rem[port]) /\ rem[port].proto = protocol
    THEN rem[port].attrs
    ELSE <<>>

-----------------------------------------------------------------------------
(* setListenerAttribute, readListerners and d.Set("listener", ...) *)

\* the FieldByName lookups of setListenerAttribute, each with its key
AttributeKeys ==
    {<<"BackendServerPort", "instance_port">>,
     <<"ListenerPort", "lb_port">>,
     <<"Bandwidth", "bandwidth">>,
     <<"Scheduler", "scheduler">>,
     <<"HealthCheck", "health_check">>,
     <<"StickySession", "sticky_session">>,
     <<"StickySessionType", "sticky_session_type">>,
     <<"CookieTimeout", "cookie_timeout">>,
     <<"Cookie", "cookie">>,
     <<"PersistenceTimeout", "persistence_timeout">>,
     <<"HealthCheckType", "health_check_type">>,
     <<"HealthCheckDomain", "health_check_domain">>,
     <<"HealthCheckConnectPort", "health_check_connect_port">>,
     <<"HealthCheckURI", "health_check_uri">>,
     <<"HealthyThreshold", "healthy_threshold">>,
     <<"UnhealthyThreshold", "unhealthy_threshold">>,
     <<"HealthCheckTimeout", "health_check_timeout">>,
     <<"HealthCheckInterval", "health_check_interval">>,
     <<"HealthCheckHttpCode", "health_check_http_code">>,
     <<"ServerCertificateId", "ssl_certificate_id">>}

MutSetListenerAttributeNoPort(listen, protocol) ==
    LET valid == {p \in AttributeKeys :
                    p[1] \in DOMAIN listen /\ p[1] # "ListenerPort"}
        FieldOf(k) == (CHOOSE p \in valid : p[2] = k)[1]
    IN [k \in {p[2] : p \in valid} \cup {"lb_protocol", "lb_port"} |->
           IF k = "lb_protocol" THEN protocol
           ELSE IF k = "lb_port" THEN 0 ELSE listen[FieldOf(k)]]

setListenerAttribute(listen, protocol) ==
    LET valid == {p \in AttributeKeys : p[1] \in DOMAIN listen}
        FieldOf(k) == (CHOOSE p \in valid : p[2] = k)[1]
    IN [k \in {p[2] : p \in valid} \cup {"lb_protocol"} |->
           IF k = "lb_protocol" THEN protocol ELSE listen[FieldOf(k)]]

\* the order in which readListerners describes the protocols of a port
DescribeOrder == <<Http, Https, Tcp, Udp>>

\* the listeners one port contributes, describing protocols n..4
RECURSIVE ReadPort(_, _, _)
ReadPort(rem, port, n) ==
    IF n > Len(DescribeOrder) THEN <<>>
    ELSE LET ls == DescribeListenerAttribute(rem, port, DescribeOrder[n]) IN
         (IF DOMAIN ls # {}
          THEN <<setListenerAttribute(ls, DescribeOrder[n])>> ELSE <<>>)
         \o ReadPort(rem, port, n + 1)

\* loadBalancer.ListenerPorts.ListenerPort: the ports that hold a listener
RECURSIVE ListenerPort(_, _)
ListenerPort(rem, ps) ==
    IF ps = {} THEN <<>>
    ELSE LET p == CHOOSE x \in ps : \A y \in ps : x <= y IN
         (IF IsListener(rem[p]) THEN <<p>> ELSE <<>>)
         \o ListenerPort(rem, ps \ {p})

RECURSIVE ReadPorts(_, _)
ReadPorts(rem, ports) ==
    IF ports = <<>> THEN <<>>
    ELSE ReadPort(rem, Head(ports), 1) \o ReadPorts(rem, Tail(ports))

\* readListerners when no describe call fails
readListerners(rem) == ReadPorts(rem, ListenerPort(rem, DOMAIN rem))

\* a map as the schema reads it back: every key of the element's schema,
\* with the zero value of its type when the map does not set it
SchemaRead(m) ==
    [k \in ListenerKeys |-> IF k \in DOMAIN m THEN m[k] ELSE ZeroValue(k)]

\* d.Set("listener", list): the list's elements, read back through the
\* schema, added in order to a set keyed by hash code
RECURSIVE SetListeners(_)
SetListeners(list) ==
    IF list = <<>> THEN {}
    ELSE LET rest == SetListeners(Tail(list))
             x == SchemaRead(Head(list))
         IN {x} \cup {y \in rest : resourceAliyunSlbListenerHash(y)
                                      # resourceAliyunSlbListenerHash(x)}

-----------------------------------------------------------------------------
(* The configured listeners of a pass *)

\* m with the keys of o set to o's values
Override(m, o) ==
    [k \in DOMAIN m |-> IF k \in DOMAIN o THEN o[k] ELSE m[k]]

\* an element of the configured set as the schema reads it: the keys it sets,
\* the schema's Default for the others
ConfigListener(o) ==
    Override([k \in ListenerKeys |-> SchemaDefault(k)], o)

HealthCheckDetails ==
    [health_check_uri |-> "/", health_check_domain |-> "d.example",
     health_check_connect_port |-> 8080, healthy_threshold |-> 3,
     unhealthy_threshold |-> 3, health_check_timeout |-> 5,
     health_check_interval |-> 2, health_check_http_code |-> "http_2xx"]

\* the health-check and sticky-session settings of the http listeners of a
\* pass: the defaults, an incomplete health check, a server cookie left empty
HttpSettings ==
    {[health_check |-> OffFlag],
     Override([health_check |-> OnFlag] @@ HealthCheckDetails,
              [health_check_uri |-> ""]),
     [sticky_session |-> OnFlag,
      sticky_session_type |-> ServerStickySessionType]}

\* the https listeners of a pass: with a certificate and without one
HttpsSettings ==
    {[ssl_certificate_id |-> "cert-1"],
     [ssl_certificate_id |-> ""]}

ConfigListeners ==
    {ConfigListener([instance_port |-> 8080, lb_port |-> p,
                     lb_protocol |-> proto, bandwidth |-> -1] @@ o) :
        p \in Ports,
        proto \in {Tcp, Udp},
        o \in {[health_check |-> OffFlag]}}
    \cup
    {ConfigListener([instance_port |-> 8080, lb_port |-> p,
                     lb_protocol |-> Http, bandwidth |-> -1] @@ o) :
        p \in Ports, o \in HttpSettings}
    \cup
    {ConfigListener([instance_port |-> 8080, lb_port |-> p,
                     lb_protocol |-> Https, bandwidth |-> -1] @@ o) :
        p \in Ports, o \in HttpsSettings}

\* the subsets of S of at most k elements
RECURSIVE BoundedSubsets(_, _)
BoundedSubsets(S, k) ==
    IF k = 0 THEN {{}}
    ELSE LET prev == BoundedSubsets(S, k - 1) IN
         prev \cup {T \cup {x} : T \in prev, x \in S}

\* the listener a configured listener is once created and started
RemoteListener(m) ==
    [CreatedListener(CreateRequest(LoadBalancerId, ExpandListener(m)))
        EXCEPT !.status = Running]

\* what a port of the load balancer may hold when a pass begins
RemoteSeeds(p) ==
    {NoListener} \cup
    {RemoteListener(m) :
        m \in {c \in ConfigListeners :
                 /\ c["lb_port"] = p
                 /\ CreateRequest(LoadBalancerId, ExpandListener(c)).err
                        = NoErr}}

\* the orders in which a set may be listed
RECURSIVE Lists(_)
Lists(S) ==
    IF S = {} THEN {<<>>}
    ELSE UNION {{<<x>> \o l : l \in Lists(S \ {x})} : x \in S}

-----------------------------------------------------------------------------
(* resourceAliyunSlbUpdate: one pass *)

\* the errors of the remote calls
ErrSetAttributes == "SetLoadBalancerName or ModifyLoadBalancerInternetSpec failed"
ErrDelete == "DeleteLoadBalancerListener failed"
ErrCreate == "CreateLoadBalancerListener failed"
ErrTimeout == "WaitForListener stopped got error: timeout"
ErrStart == "StartLoadBalancerListener failed"
ErrInstances == "AddBackendServers or RemoveBackendServers failed"
ErrRead == "Error reading listeners"

RemoveFailure(e) == "Failure removing outdated SLB listeners: " \o e
AddFailure(e) == "Failure add SLB listeners: " \o e

Call(op, api, n, port, ok) ==
    [op |-> op, api |-> api, n |-> n, port |-> port, ok |-> ok]

NoArgs == [api |-> "", args |-> <<>>, err |-> NoErr]

\* the configured sets of a pass: sets, of at most MaxListeners listeners
DesiredSets ==
    {S \in BoundedSubsets(ConfigListeners, MaxListeners) : IsSet(S)}

\* the remote sides a pass may begin on
RemoteStates ==
    {r \in [Ports -> UNION {RemoteSeeds(p) : p \in Ports}] :
        \A p \in Ports : r[p] \in RemoteSeeds(p)}

\* a pass begins on any configured set, with the state the last read of the
\* remote side left
InitPass ==
    /\ remote \in RemoteStates
    /\ state = SetListeners(readListerners(remote))
    /\ desired \in DesiredSets
    /\ id = LoadBalancerId
    /\ remove = <<>>
    /\ add = <<>>
    /\ pc = "begin"
    /\ i = 0
    /\ args = NoArgs
    /\ calls = <<>>
    /\ err = NoErr

Init ==
    /\ InitPass
    /\ in1 = "" /\ in2 = "" /\ out1 = "" /\ out2 = ""

Return(e) ==
    /\ pc' = "failed"
    /\ err' = e

\* lines 316-341: the name and the bandwidth of the load balancer
SetAttributes ==
    /\ pc = "begin"
    /\ pc' = "diff"
    /\ UNCHANGED <<desired, state, id, remote, remove, add, i, args, calls, err>>
    /\ UNCHANGED fnVars

SetAttributesFail ==
    /\ pc = "begin"
    /\ Return(ErrSetAttributes)
    /\ UNCHANGED <<desired, state, id, remote, remove, add, i, args, calls>>
    /\ UNCHANGED fnVars

\* where the pass goes once the remove loop is over
AfterRemove(a) == IF Len(a) > 0 THEN "build" ELSE "instances"

MutDiffSwapped ==
    /\ pc = "diff"
    /\ \E os \in Lists(Difference(desired, state)),
          ns \in Lists(Difference(state, desired)) :
          /\ remove' = ExpandDiscardingError(os)
          /\ add' = ExpandDiscardingError(ns)
          /\ pc' = IF Len(remove') > 0 THEN "remove" ELSE AfterRemove(add')
    /\ i' = 1
    /\ UNCHANGED <<desired, state, id, remote, args, calls, err>>
    /\ UNCHANGED fnVars

MutDiffNoRemove ==
    /\ pc = "diff"
    /\ \E ns \in Lists(Difference(desired, state)) :
          /\ remove' = <<>>
          /\ add' = ExpandDiscardingError(ns)
          /\ pc' = AfterRemove(add')
    /\ i' = 1
    /\ UNCHANGED <<desired, state, id, remote, args, calls, err>>
    /\ UNCHANGED fnVars

\* lines 343-349: the two differences, each listed in some order
DiffListeners ==
    /\ pc = "diff"
    /\ \E os \in Lists(Difference(state, desired)),
          ns \in Lists(Difference(desired, state)) :
          /\ remove' = ExpandDiscardingError(os)
          /\ add' = ExpandDiscardingError(ns)
          /\ pc' = IF Len(remove') > 0 THEN "remove" ELSE AfterRemove(add')
    /\ i' = 1
    /\ UNCHANGED <<desired, state, id, remote, args, calls, err>>
    /\ UNCHANGED fnVars

MutDeleteInstancePort ==
    /\ pc = "remove"
    /\ calls' = Append(calls,
                   Call("delete", "", i, remove[i].InstancePort, TRUE))
    /\ IF i < Len(remove)
       THEN i' = i + 1 /\ pc' = pc
       ELSE i' = 1 /\ pc' = AfterRemove(add)
    /\ UNCHANGED <<desired, state, id, remote, remove, add, args, err>>
    /\ UNCHANGED fnVars

\* lines 351-358: DeleteLoadBalancerListener on the port of remove[i]
DeleteListener ==
    /\ pc = "remove"
    /\ LET port == remove[i].LoadBalancerPort IN
       /\ calls' = Append(calls, Call("delete", "", i, port, TRUE))
       /\ remote' = [remote EXCEPT ![port] = NoListener]
    /\ IF i < Len(remove)
       THEN i' = i + 1 /\ pc' = pc
       ELSE i' = 1 /\ pc' = AfterRemove(add)
    /\ UNCHANGED <<desired, state, id, remove, add, args, err>>
    /\ UNCHANGED fnVars

MutDeleteContinue ==
    /\ pc = "remove"
    /\ calls' = Append(calls,
                   Call("delete", "", i, remove[i].LoadBalancerPort, FALSE))
    /\ IF i < Len(remove)
       THEN i' = i + 1 /\ pc' = pc
       ELSE i' = 1 /\ pc' = AfterRemove(add)
    /\ UNCHANGED <<desired, state, id, remote, remove, add, args, err>>
    /\ UNCHANGED fnVars

DeleteListenerFail ==
    /\ pc = "remove"
    /\ calls' = Append(calls,
                   Call("delete", "", i, remove[i].LoadBalancerPort, FALSE))
    /\ Return(RemoveFailure(ErrDelete))
    /\ UNCHANGED <<desired, state, id, remote, remove, add, i, args>>
    /\ UNCHANGED fnVars

-----------------------------------------------------------------------------
(* createListener on add[i] *)

\* where the pass goes once createListener has returned nil
AfterCreate == IF i < Len(add) THEN "build" ELSE "instances"

\* lines 473-513 up to the create call: validation and the request
BuildRequest ==
    /\ pc = "build"
    /\ LET req == CreateRequest(id, add[i]) IN
       /\ req.err = NoErr
       /\ args' = req
       /\ pc' = IF req.api = "" THEN "wait" ELSE "create"
    /\ UNCHANGED <<desired, state, id, remote, remove, add, i, calls, err>>
    /\ UNCHANGED fnVars

MutBuildRequestFailAfterCall ==
    /\ pc = "build"
    /\ LET req == CreateRequest(id, add[i]) IN
       /\ req.err # NoErr
       /\ Return(AddFailure(req.err))
    /\ calls' = Append(calls,
                   Call("create", "", i, add[i].LoadBalancerPort, TRUE))
    /\ UNCHANGED <<desired, state, id, remote, remove, add, i, args>>
    /\ UNCHANGED fnVars

BuildRequestFail ==
    /\ pc = "build"
    /\ LET req == CreateRequest(id, add[i]) IN
       /\ req.err # NoErr
       /\ Return(AddFailure(req.err))
    /\ UNCHANGED <<desired, state, id, remote, remove, add, i, args, calls>>
    /\ UNCHANGED fnVars

\* the protocol's create call succeeds: only on a port that holds no listener
CreateLoadBalancerListener ==
    /\ pc = "create"
    /\ LET port == add[i].LoadBalancerPort IN
       /\ ~IsListener(remote[port])
       /\ calls' = Append(calls, Call("create", args.api, i, port, TRUE))
       /\ remote' = [remote EXCEPT ![port] = CreatedListener(args)]
    /\ pc' = "wait"
    /\ UNCHANGED <<desired, state, id, remove, add, i, args, err>>
    /\ UNCHANGED fnVars

CreateLoadBalancerListenerFail ==
    /\ pc = "create"
    /\ calls' = Append(calls,
                   Call("create", args.api, i, add[i].LoadBalancerPort, FALSE))
    /\ Return(AddFailure(ErrCreate))
    /\ UNCHANGED <<desired, state, id, remote, remove, add, i, args>>
    /\ UNCHANGED fnVars

\* line 515: the poll sees the port's listener of the protocol stopped
WaitForListenerAsyn ==
    /\ pc = "wait"
    /\ LET port == add[i].LoadBalancerPort IN
       /\ IsListener(remote[port])
       /\ ToUpper(remote[port].proto) = ToUpper(add[i].Protocol)
       /\ remote[port].status = Stopped
       /\ calls' = Append(calls, Call("poll", "", i, port, TRUE))
    /\ pc' = "start"
    /\ UNCHANGED <<desired, state, id, remote, remove, add, i, args, err>>
    /\ UNCHANGED fnVars

MutWaitIgnoreTimeout ==
    /\ pc = "wait"
    /\ calls' = Append(calls,
                   Call("poll", "", i, add[i].LoadBalancerPort, FALSE))
    /\ pc' = "start"
    /\ UNCHANGED <<desired, state, id, remote, remove, add, i, args, err>>
    /\ UNCHANGED fnVars

WaitForListenerAsynTimeout ==
    /\ pc = "wait"
    /\ calls' = Append(calls,
                   Call("poll", "", i, add[i].LoadBalancerPort, FALSE))
    /\ Return(AddFailure(ErrTimeout))
    /\ UNCHANGED <<desired, state, id, remote, remove, add, i, args>>
    /\ UNCHANGED fnVars

\* line 519: the start call
StartLoadBalancerListener ==
    /\ pc = "start"
    /\ LET port == add[i].LoadBalancerPort IN
       /\ IsListener(remote[port])
       /\ calls' = Append(calls, Call("start", "", i, port, TRUE))
       /\ remote' = [remote EXCEPT ![port].status = Running]
    /\ pc' = AfterCreate
    /\ i' = IF i < Len(add) THEN i + 1 ELSE i
    /\ UNCHANGED <<desired, state, id, remove, add, args, err>>
    /\ UNCHANGED fnVars

StartLoadBalancerListenerFail ==
    /\ pc = "start"
    /\ calls' = Append(calls,
                   Call("start", "", i, add[i].LoadBalancerPort, FALSE))
    /\ Return(AddFailure(ErrStart))
    /\ UNCHANGED <<desired, state, id, remote, remove, add, i, args>>
    /\ UNCHANGED fnVars

-----------------------------------------------------------------------------
(* The rest of the pass: the backend servers, then resourceAliyunSlbRead *)

\* lines 375-400
UpdateInstances ==
    /\ pc = "instances"
    /\ pc' = "read"
    /\ UNCHANGED <<desired, state, id, remote, remove, add, i, args, calls, err>>
    /\ UNCHANGED fnVars

UpdateInstancesFail ==
    /\ pc = "instances"
    /\ Return(ErrInstances)
    /\ UNCHANGED <<desired, state, id, remote, remove, add, i, args, calls>>
    /\ UNCHANGED fnVars

\* lines 273-310: the listeners read back become the state's listener set
ReadListeners ==
    /\ pc = "read"
    /\ state' = SetListeners(readListerners(remote))
    /\ pc' = "done"
    /\ UNCHANGED <<desired, id, remote, remove, add, i, args, calls, err>>
    /\ UNCHANGED fnVars

\* a describe call fails with an error other than the excepted ones
ReadListenersFail ==
    /\ pc = "read"
    /\ Return(ErrRead)
    /\ UNCHANGED <<desired, state, id, remote, remove, add, i, args, calls>>
    /\ UNCHANGED fnVars

\* lines 276-288: the load balancer is gone; the id is cleared, nil returned
ReadNotFound ==
    /\ pc = "read"
    /\ id' = ""
    /\ pc' = "done"
    /\ UNCHANGED <<desired, state, remote, remove, add, i, args, calls, err>>
    /\ UNCHANGED fnVars

NextPass ==
    \/ SetAttributes
    \/ SetAttributesFail
    \/ DiffListeners
    \/ DeleteListener
    \/ DeleteListenerFail
    \/ BuildRequest
    \/ BuildRequestFail
    \/ CreateLoadBalancerListener
    \/ CreateLoadBalancerListenerFail
    \/ WaitForListenerAsyn
    \/ WaitForListenerAsynTimeout
    \/ StartLoadBalancerListener
    \/ StartLoadBalancerListenerFail
    \/ UpdateInstances
    \/ UpdateInstancesFail
    \/ ReadListeners
    \/ ReadListenersFail
    \/ ReadNotFound

Next == NextPass

Spec == Init /\ [][Next]_vars

-----------------------------------------------------------------------------
(* A pass whose configured set may hold listeners expandListeners rejects *)

\* tcp listeners that carry a certificate
RejectedListeners ==
    {ConfigListener([instance_port |-> 8080, lb_port |-> p,
                     lb_protocol |-> Tcp, bandwidth |-> -1,
                     ssl_certificate_id |-> "cert-1"]) : p \in Ports}

ConvertSets ==
    {S \in BoundedSubsets(ConfigListeners \cup RejectedListeners,
                          MaxListeners) : IsSet(S)}

InitConvert ==
    /\ remote \in RemoteStates
    /\ state = SetListeners(readListerners(remote))
    /\ desired \in ConvertSets
    /\ id = LoadBalancerId
    /\ remove = <<>>
    /\ add = <<>>
    /\ pc = "begin"
    /\ i = 0
    /\ args = NoArgs
    /\ calls = <<>>
    /\ err = NoErr
    /\ in1 = "" /\ in2 = "" /\ out1 = "" /\ out2 = ""

SpecConvert == InitConvert /\ [][Next]_vars

-----------------------------------------------------------------------------
(* createListener on one listener, whatever its fields *)

\* the eight details of a health check, each set or left at its zero value
HealthCheckDetailKeys == DOMAIN HealthCheckDetails

HealthCheckWith(hc, set) ==
    [k \in HealthCheckDetailKeys \cup {"health_check"} |->
        IF k = "health_check" THEN hc
        ELSE IF k \in set THEN HealthCheckDetails[k] ELSE ZeroValue(k)]

\* an enabled health check with any of its details set, a disabled one with
\* all of them or none
HealthCheckSettings ==
    {HealthCheckWith(OnFlag, set) : set \in SUBSET HealthCheckDetailKeys}
    \cup {HealthCheckWith(OffFlag, set) : set \in {{}, HealthCheckDetailKeys}}

StickySessionSettings ==
    [sticky_session : {OnFlag, OffFlag},
     sticky_session_type :
        {"", InsertStickySessionType, ServerStickySessionType},
     cookie_timeout : {0, 1},
     cookie : {"", "k"}]

CreateInputs ==
    {ConfigListener([instance_port |-> 8080, lb_port |-> 80,
                     lb_protocol |-> proto, bandwidth |-> -1] @@ o) :
        proto \in {Tcp, Udp}, o \in {[health_check |-> OffFlag]}}
    \cup
    {ConfigListener([instance_port |-> 8080, lb_port |-> 80,
                     lb_protocol |-> Http, bandwidth |-> -1] @@ h @@ t) :
        h \in HealthCheckSettings, t \in StickySessionSettings}
    \cup
    {ConfigListener([instance_port |-> 8080, lb_port |-> 80,
                     lb_protocol |-> Https, bandwidth |-> -1,
                     ssl_certificate_id |-> c] @@ h @@ t) :
        c \in {"", "cert-1"},
        h \in HealthCheckSettings, t \in StickySessionSettings}

NoRemote == [p \in Ports |-> NoListener]

InitCreate ==
    /\ \E m \in CreateInputs :
          /\ desired = {m}
          /\ add = expandListeners(<<m>>)
    /\ state = {}
    /\ id = LoadBalancerId
    /\ remote = NoRemote
    /\ remove = <<>>
    /\ pc = "build"
    /\ i = 1
    /\ args = NoArgs
    /\ calls = <<>>
    /\ err = NoErr
    /\ in1 = "" /\ in2 = "" /\ out1 = "" /\ out2 = ""

NextCreate ==
    \/ BuildRequest
    \/ BuildRequestFail
    \/ CreateLoadBalancerListener
    \/ CreateLoadBalancerListenerFail
    \/ WaitForListenerAsyn
    \/ WaitForListenerAsynTimeout
    \/ StartLoadBalancerListener
    \/ StartLoadBalancerListenerFail

SpecCreate == InitCreate /\ [][NextCreate]_vars

-----------------------------------------------------------------------------
(* resourceAliyunSlbListenerHash on two listener maps *)

\* a map that adds no key to the base map it is merged into
NoKeys == [lb_port |-> 0]

\* maps that set the four keys the hash reads unconditionally, and set or
\* leave out the certificate and the keys the hash does not read
HashInputs ==
    {[instance_port |-> ip, lb_port |-> lp, lb_protocol |-> proto,
      bandwidth |-> bw] @@ c @@ o :
        ip \in {80, 8080}, lp \in {80, 443},
        proto \in {"http", "HTTP", "tcp"}, bw \in {-1, 10},
        c \in {NoKeys, [ssl_certificate_id |-> ""],
               [ssl_certificate_id |-> "cert-1"]},
        o \in {NoKeys,
               [scheduler |-> "wlc", cookie |-> "k", health_check |-> OnFlag]}}

InitHash ==
    /\ in1 \in HashInputs
    /\ in2 \in HashInputs
    /\ out1 = "" /\ out2 = ""
    /\ pc = "hash"
    /\ desired = {} /\ state = {} /\ id = LoadBalancerId /\ remote = NoRemote
    /\ remove = <<>> /\ add = <<>> /\ i = 0 /\ args = NoArgs
    /\ calls = <<>> /\ err = NoErr

HashListeners ==
    /\ pc = "hash"
    /\ out1' = resourceAliyunSlbListenerHash(in1)
    /\ out2' = resourceAliyunSlbListenerHash(in2)
    /\ pc' = "hashed"
    /\ UNCHANGED <<desired, state, id, remote, remove, add, i, args, calls,
                   err, in1, in2>>

NextHash == HashListeners

SpecHash == InitHash /\ [][NextHash]_vars

-----------------------------------------------------------------------------
(* A listener built into its request, held by the remote side and read     *)
(* back by setListenerAttribute                                            *)

\* tcp and udp listeners: scheduling, persistence and health-check timing
TransportSettings ==
    [scheduler : {WRRScheduler, "wlc"},
     persistence_timeout : {0, 10},
     health_check_type : {TCPHealthCheckType, "http"},
     health_check_timeout : {0, 5},
     health_check_interval : {0, 2}]

\* health checks that pass getHttpListenerType: enabled with every detail,
\* disabled with all of them or none
ValidHealthChecks ==
    {HealthCheckWith(OnFlag, HealthCheckDetailKeys),
     HealthCheckWith(OffFlag, HealthCheckDetailKeys),
     HealthCheckWith(OffFlag, {})}

\* sticky sessions that pass getHttpListenerType
ValidStickySessions ==
    {[sticky_session |-> OffFlag, sticky_session_type |-> "",
      cookie_timeout |-> 0, cookie |-> ""],
     [sticky_session |-> OnFlag,
      sticky_session_type |-> InsertStickySessionType,
      cookie_timeout |-> 1, cookie |-> ""],
     [sticky_session |-> OnFlag,
      sticky_session_type |-> ServerStickySessionType,
      cookie_timeout |-> 0, cookie |-> "k"]}

\* valid listeners of the four protocols
RoundTripInputs ==
    {ConfigListener([instance_port |-> 8080, lb_port |-> 80,
                     lb_protocol |-> proto, bandwidth |-> bw] @@ t) :
        proto \in {Tcp, Udp}, bw \in {-1, 10}, t \in TransportSettings}
    \cup
    {ConfigListener([instance_port |-> 8080, lb_port |-> 80,
                     lb_protocol |-> Http, bandwidth |-> bw,
                     scheduler |-> sch] @@ h @@ t) :
        bw \in {-1, 10}, sch \in {WRRScheduler, "wlc"},
        h \in ValidHealthChecks, t \in ValidStickySessions}
    \cup
    {ConfigListener([instance_port |-> 8080, lb_port |-> 443,
                     lb_protocol |-> Https, bandwidth |-> bw,
                     scheduler |-> sch,
                     ssl_certificate_id |-> "cert-1"] @@ h @@ t) :
        bw \in {-1, 10}, sch \in {WRRScheduler, "wlc"},
        h \in ValidHealthChecks, t \in ValidStickySessions}

InitRoundTrip ==
    /\ in1 \in RoundTripInputs
    /\ desired = {in1}
    /\ add = expandListeners(<<in1>>)
    /\ state = {}
    /\ id = LoadBalancerId
    /\ remote = NoRemote
    /\ remove = <<>>
    /\ pc = "request"
    /\ i = 1
    /\ args = NoArgs
    /\ calls = <<>>
    /\ err = NoErr
    /\ in2 = "" /\ out1 = "" /\ out2 = <<>>

\* the request createListener builds for the listener
RoundTripRequest ==
    /\ pc = "request"
    /\ LET req == CreateRequest(id, add[i]) IN
       /\ req.err = NoErr
       /\ req.api # ""
       /\ args' = req
    /\ pc' = "raw"
    /\ UNCHANGED <<desired, state, id, remote, remove, add, i, calls, err>>
    /\ UNCHANGED fnVars

\* the remote side holds a listener with the request's field values
RoundTripRemote ==
    /\ pc = "raw"
    /\ remote' = [remote EXCEPT
                    ![add[i].LoadBalancerPort] = CreatedListener(args)]
    /\ pc' = "described"
    /\ UNCHANGED <<desired, state, id, remove, add, i, args, calls, err>>
    /\ UNCHANGED fnVars

\* the describe call of the listener's protocol, and setListenerAttribute on
\* its response under that protocol
RoundTripNormalize ==
    /\ pc = "described"
    /\ LET ls == DescribeListenerAttribute(remote, add[i].LoadBalancerPort,
                                           add[i].Protocol) IN
       /\ DOMAIN ls # {}
       /\ out2' = setListenerAttribute(ls, add[i].Protocol)
    /\ pc' = "normalized"
    /\ UNCHANGED <<desired, state, id, remote, remove, add, i, args, calls,
                   err, in1, in2, out1>>

NextRoundTrip ==
    \/ RoundTripRequest
    \/ RoundTripRemote
    \/ RoundTripNormalize

SpecRoundTrip == InitRoundTrip /\ [][NextRoundTrip]_vars

-----------------------------------------------------------------------------
(* Properties *)

Range(q) == {q[n] : n \in DOMAIN q}

\* the five identity values of a Listener and of a listener map of a pass
IdentityOf(l) ==
    <<l.InstancePort, l.LoadBalancerPort, ToLower(l.Protocol), l.Bandwidth,
      l.SSLCertificateId>>

IdentityOfMap(m) ==
    <<m["instance_port"], m["lb_port"], ToLower(m["lb_protocol"]),
      m["bandwidth"], m["ssl_certificate_id"]>>

\* the differences have been computed and the state is still the one diffed
Diffed == i >= 1 /\ pc # "done"

\* C1: the diff of resourceAliyunSlbUpdate removes exactly the listeners of
\* the state whose identity no configured listener has, and adds exactly the
\* configured listeners whose identity no listener of the state has, each
\* once; equal identity sets give two empty lists, and no identity is in both
C1_DiffIsSetDifference ==
    Diffed =>
        LET D == {IdentityOfMap(m) : m \in desired}
            C == {IdentityOfMap(m) : m \in state}
            toRemove == {IdentityOf(l) : l \in Range(remove)}
            toAdd == {IdentityOf(l) : l \in Range(add)}
        IN /\ toRemove = C \ D
           /\ toAdd = D \ C
           /\ Len(remove) = Cardinality(toRemove)
           /\ Len(add) = Cardinality(toAdd)
           /\ toRemove \cap toAdd = {}
           /\ (D = C => remove = <<>> /\ add = <<>>)

\* a diff with listeners to remove, listeners to add, and a listener kept
\* although its configured fields differ from those of the state
C1_Witness ==
    /\ Diffed
    /\ Len(remove) > 0
    /\ Len(add) > 0
    /\ \E d \in desired, c \in state :
          IdentityOfMap(d) = IdentityOfMap(c) /\ d # c

\* the identity values of any listener map: the certificate as it is set
HashIdentity(m) ==
    <<m["instance_port"], m["lb_port"], ToLower(m["lb_protocol"]),
      m["bandwidth"],
      IF "ssl_certificate_id" \in DOMAIN m
      THEN <<m["ssl_certificate_id"]>> ELSE <<>> >>

\* C2: two listener maps that agree on instance port, load balancer port,
\* lower-cased protocol, bandwidth and certificate have the same hash,
\* whatever other keys they set and whatever the case of the protocol
C2_HashOfIdentityOnly ==
    (pc = "hashed" /\ HashIdentity(in1) = HashIdentity(in2)) => out1 = out2

\* two maps of one identity that differ in the case of the protocol and in
\* the other keys they set
C2_Witness ==
    /\ pc = "hashed"
    /\ HashIdentity(in1) = HashIdentity(in2)
    /\ in1["lb_protocol"] # in2["lb_protocol"]
    /\ DOMAIN in1 # DOMAIN in2
    /\ out1 = out2

\* the calls of the listener API issued for add[n], in order
RECURSIVE CallsOf(_, _)
CallsOf(n, log) ==
    IF log = <<>> THEN <<>>
    ELSE (IF Head(log).op # "delete" /\ Head(log).n = n
          THEN <<Head(log)>> ELSE <<>>) \o CallsOf(n, Tail(log))

CreateOrder == <<"create", "poll", "start">>

\* C3: the calls issued for a listener to add are a create of its protocol
\* on its port, then a poll, then a start, each issued only when the one
\* before it succeeded: no start without a successful create and a
\* successful poll before it, none after a failed create or a timed-out poll
C3_CreatePollStart ==
    \A n \in DOMAIN add :
        LET cs == CallsOf(n, calls) IN
        /\ Len(cs) <= Len(CreateOrder)
        /\ \A k \in DOMAIN cs :
              /\ cs[k].op = CreateOrder[k]
              /\ cs[k].port = add[n].LoadBalancerPort
              /\ k < Len(cs) => cs[k].ok
              /\ k = 1 => ProtocolOfApi(cs[k].api) = add[n].Protocol

\* the second listener to add has been started
C3_Witness ==
    \E k \in DOMAIN calls :
        calls[k].op = "start" /\ calls[k].n = 2 /\ calls[k].ok

\* the calls of one kind in the log
CallsOp(op) == {k \in DOMAIN calls : calls[k].op = op}

\* the listener the remote side holds on a port, as the pass reads it back
ReadBack(port) ==
    SchemaRead(setListenerAttribute(remote[port].attrs, remote[port].proto))

\* the load balancer holds listener l (a Listener) on l's port
OnRemote(l) ==
    /\ IsListener(remote[l.LoadBalancerPort])
    /\ IdentityOfMap(ReadBack(l.LoadBalancerPort)) = IdentityOf(l)

\* the load balancer holds listener l, started
Active(l) == OnRemote(l) /\ remote[l.LoadBalancerPort].status = Running

\* every listener to add passes createListener's checks
AllValid == \A n \in DOMAIN add : CreateRequest(id, add[n]).err = NoErr

\* no remote call of the pass has failed or timed out
NoRemoteFailure ==
    /\ \A k \in DOMAIN calls : calls[k].ok
    /\ err \notin {ErrSetAttributes, ErrInstances, ErrRead}

\* the listener block of the pass is over and returned no error
ListenersApplied == pc \in {"instances", "read", "done"} /\ i >= 1

\* C4: a pass whose listeners to add are all valid and whose remote calls all
\* succeed does not fail, and once its listener block is over it has issued
\* one delete per listener to remove, on that listener's load balancer port,
\* one create of its own protocol, one poll and one start per listener to
\* add, and nothing else; every listener to add is then active and no
\* listener to remove is left on the load balancer
C4_SuccessfulPass ==
    /\ (Diffed /\ AllValid /\ NoRemoteFailure) => pc # "failed"
    /\ ListenersApplied =>
        /\ \A k \in DOMAIN calls : calls[k].ok
        /\ Cardinality(CallsOp("delete")) = Len(remove)
        /\ \A n \in DOMAIN remove :
              \E k \in CallsOp("delete") :
                  calls[k].n = n /\ calls[k].port = remove[n].LoadBalancerPort
        /\ Cardinality(CallsOp("create")) = Len(add)
        /\ Cardinality(CallsOp("start")) = Len(add)
        /\ \A n \in DOMAIN add :
              /\ \E k \in CallsOp("create") :
                    /\ calls[k].n = n
                    /\ calls[k].port = add[n].LoadBalancerPort
                    /\ ProtocolOfApi(calls[k].api) = add[n].Protocol
              /\ \E k \in CallsOp("start") :
                    calls[k].n = n /\ calls[k].port = add[n].LoadBalancerPort
        /\ Len(calls) = Len(remove) + 3 * Len(add)
        /\ \A n \in DOMAIN add : Active(add[n])
        /\ \A n \in DOMAIN remove : ~OnRemote(remove[n])

\* a pass that removed two listeners and added two is over
C4_Witness ==
    /\ pc = "done"
    /\ id = LoadBalancerId
    /\ Len(remove) = 2
    /\ Len(add) = 2

\* the error the pass returns when calls[k] fails
ErrorOf(c) ==
    CASE c.op = "delete" -> RemoveFailure(ErrDelete)
      [] c.op = "create" -> AddFailure(ErrCreate)
      [] c.op = "poll" -> AddFailure(ErrTimeout)
      [] c.op = "start" -> AddFailure(ErrStart)

\* C5: a failed delete, create, poll or start is the last call of the pass,
\* which returns that call's error; the deletes all precede the creates, so
\* nothing is undone: the listeners deleted before the failure stay deleted
\* and the listeners created before it stay on the load balancer
C5_FailFastNoRollback ==
    /\ \A k \in DOMAIN calls :
          ~calls[k].ok =>
              /\ k = Len(calls)
              /\ pc = "failed"
              /\ err = ErrorOf(calls[k])
    /\ \A j, k \in DOMAIN calls :
          (calls[j].op = "delete" /\ calls[k].op # "delete") => j < k
    /\ pc = "failed" =>
          /\ \A k \in CallsOp("delete") :
                calls[k].ok => ~OnRemote(remove[calls[k].n])
          /\ \A k \in CallsOp("create") :
                calls[k].ok => OnRemote(add[calls[k].n])

\* a pass fails on a call after it deleted one listener and started another
C5_Witness ==
    /\ pc = "failed"
    /\ Len(calls) > 0
    /\ ~calls[Len(calls)].ok
    /\ \E k \in CallsOp("delete") : calls[k].ok
    /\ \E k \in CallsOp("start") : calls[k].ok

\* the errors of createListener's checks, as the pass returns them
HealthCheckIncomplete == AddFailure(MsgHealthCheck)
StickySessionTypeMissing == AddFailure(MsgStickySession)
CookieTimeoutMissing == AddFailure(MsgCookieTimeout)
CookieMissing == AddFailure(MsgCookie)
CertificateRequired == AddFailure(MsgCertificate)

ValidationErrors ==
    {HealthCheckIncomplete, StickySessionTypeMissing, CookieTimeoutMissing,
     CookieMissing, CertificateRequired}

\* C6 as stated: a pass that ends with a validation error has issued no
\* remote call at all
C6_NoCallBeforeValidation ==
    err \in ValidationErrors => calls = <<>>

\* C6: a pass that ends with a validation error for add[i] has issued no
\* create, poll or start for that listener; what it has issued are the
\* deletes of the listeners to remove and the three calls of each listener
\* added before add[i]
C6_NoCallForInvalidListener ==
    err \in ValidationErrors =>
        /\ CallsOf(i, calls) = <<>>
        /\ \A k \in DOMAIN calls : calls[k].ok
        /\ Len(calls) = Len(remove) + 3 * (i - 1)

\* the second listener to add fails validation after a listener was deleted
\* and the first was created, polled and started
C6_Witness ==
    /\ err \in ValidationErrors
    /\ i = 2
    /\ Len(remove) > 0
    /\ Len(calls) = Len(remove) + 3

\* C7: when a pass is over and has read the listeners back, the state holds
\* exactly the identities of the configured set, so that both differences
\* of the next pass are empty
C7_ReadBackMatchesDesired ==
    (pc = "done" /\ id = LoadBalancerId) =>
        /\ {IdentityOfMap(m) : m \in state}
               = {IdentityOfMap(m) : m \in desired}
        /\ Difference(state, desired) = {}
        /\ Difference(desired, state) = {}

\* a pass that replaced a listener by an https listener has read it back
C7_Witness ==
    /\ pc = "done"
    /\ id = LoadBalancerId
    /\ Len(remove) > 0
    /\ \E n \in DOMAIN add :
          add[n].Protocol = Https /\ add[n].SSLCertificateId # ""
    /\ Cardinality(state) = 2

\* createListener has run its checks on add[1], an http or https listener
HttpChecked ==
    /\ pc # "build"
    /\ add # <<>>
    /\ add[1].Protocol \in {Http, Https}

\* the health-check details whose value is empty or zero
HealthCheckDetailFields ==
    {"HealthCheckURI", "HealthCheckDomain", "HealthCheckConnectPort",
     "HealthyThreshold", "UnhealthyThreshold", "HealthCheckTimeout",
     "HealthCheckInterval", "HealthCheckHttpCode"}

MissingDetails(l) ==
    {f \in HealthCheckDetailFields : l[f] = ZeroValue(KeyOfField(f))}

\* C8: createListener fails on an http or https listener with the
\* health-check error exactly when the health check is on and one of its
\* eight details is empty or zero, and then it has issued no call
C8_HealthCheckIncomplete ==
    HttpChecked =>
        /\ err = HealthCheckIncomplete
              <=> (add[1].HealthCheck = OnFlag /\ MissingDetails(add[1]) # {})
        /\ err = HealthCheckIncomplete => calls = <<>> /\ pc = "failed"

\* an https listener with a certificate fails on a health check that lacks
\* only its interval
C8_Witness ==
    /\ HttpChecked
    /\ err = HealthCheckIncomplete
    /\ add[1].Protocol = Https
    /\ add[1].SSLCertificateId # ""
    /\ MissingDetails(add[1]) = {"HealthCheckInterval"}

\* the listener satisfies the health-check rule
HealthCheckRule(l) == l.HealthCheck = OnFlag => MissingDetails(l) = {}

HttpErrors ==
    {HealthCheckIncomplete, StickySessionTypeMissing, CookieTimeoutMissing,
     CookieMissing}

\* C9 as stated: the three sticky-session rules hold whatever the value of
\* sticky_session, and the cookie timeout must be greater than 0
C9_StickyRulesAnySession ==
    (HttpChecked /\ HealthCheckRule(add[1])) =>
        LET l == add[1]
            noType == l.StickySession = OnFlag /\ l.StickySessionType = ""
            noTimeout == /\ l.StickySessionType = InsertStickySessionType
                         /\ ~(l.CookieTimeout > 0)
            noCookie == /\ l.StickySessionType = ServerStickySessionType
                        /\ l.Cookie = ""
        IN /\ noType => err = StickySessionTypeMissing
           /\ noTimeout => err = CookieTimeoutMissing
           /\ noCookie => err = CookieMissing
           /\ ~(noType \/ noTimeout \/ noCookie) => err \notin HttpErrors

\* the sticky-session rules a listener with sticky_session on breaks
StickyRuleBroken(l) ==
    IF l.StickySession # OnFlag THEN {}
    ELSE {r \in {"type", "timeout", "cookie"} :
            \/ r = "type" /\ l.StickySessionType = ""
            \/ /\ r = "timeout"
               /\ l.StickySessionType = InsertStickySessionType
               /\ l.CookieTimeout = 0
            \/ /\ r = "cookie"
               /\ l.StickySessionType = ServerStickySessionType
               /\ l.Cookie = ""}

\* C9: with sticky_session on, an unset type fails with the type error, type
\* insert with a cookie timeout of 0 with the timeout error, type server
\* with an empty cookie with the cookie error; a listener with
\* sticky_session off, or breaking none of the three rules, passes the checks
C9_StickyRulesWhenOn ==
    (HttpChecked /\ HealthCheckRule(add[1])) =>
        LET broken == StickyRuleBroken(add[1]) IN
        /\ "type" \in broken => err = StickySessionTypeMissing
        /\ "timeout" \in broken => err = CookieTimeoutMissing
        /\ "cookie" \in broken => err = CookieMissing
        /\ broken = {} => err \notin HttpErrors

\* an http listener with sticky_session on and type server fails on its
\* empty cookie although its health check is complete
C9_Witness ==
    /\ HttpChecked
    /\ add[1].HealthCheck = OnFlag
    /\ MissingDetails(add[1]) = {}
    /\ add[1].StickySession = OnFlag
    /\ add[1].StickySessionType = ServerStickySessionType
    /\ err = CookieMissing

\* createListener has run its checks on add[1], an https listener with an
\* empty certificate
HttpsNoCertificate ==
    /\ pc # "build"
    /\ add # <<>>
    /\ add[1].Protocol = Https
    /\ add[1].SSLCertificateId = ""

\* C10 as stated: an https listener without a certificate fails with the
\* certificate error whatever its other fields are
C10_CertificateRequiredAlways ==
    HttpsNoCertificate =>
        /\ pc = "failed"
        /\ err = CertificateRequired
        /\ calls = <<>>

\* C10: an https listener without a certificate fails in createListener
\* before any create, poll or start call: with the error of the health-check
\* or sticky-session rule it breaks when it breaks one, with the certificate
\* error when it breaks none
C10_CertificateRequired ==
    HttpsNoCertificate =>
        /\ pc = "failed"
        /\ calls = <<>>
        /\ err \in HttpErrors \cup {CertificateRequired}
        /\ err = CertificateRequired
              <=> (HealthCheckRule(add[1]) /\ StickyRuleBroken(add[1]) = {})

\* an https listener without a certificate that passes the http checks, with
\* a health check and a sticky session on, fails with the certificate error
C10_Witness ==
    /\ HttpsNoCertificate
    /\ add[1].HealthCheck = OnFlag
    /\ add[1].StickySession = OnFlag
    /\ err = CertificateRequired

-----------------------------------------------------------------------------
(* C11: the round trip of a listener through its request and back *)

\* the keys each protocol's request carries (section 4.2 of the
\* specification): identity and bandwidth, and per protocol scheduling,
\* persistence, the sticky-session block and the health-check block
IdentityKeys == {"instance_port", "lb_port", "lb_protocol", "bandwidth"}

StickySessionKeys ==
    {"sticky_session", "sticky_session_type", "cookie_timeout", "cookie"}

DefinedKeys(protocol) ==
    CASE protocol = Tcp ->
            IdentityKeys \cup HealthCheckDetailKeys
            \cup {"scheduler", "persistence_timeout", "health_check_type"}
      [] protocol = Udp ->
            IdentityKeys
            \cup {"persistence_timeout", "health_check_timeout",
                  "health_check_interval"}
      [] protocol = Http ->
            IdentityKeys \cup HealthCheckDetailKeys \cup StickySessionKeys
            \cup {"scheduler", "health_check"}
      [] protocol = Https ->
            IdentityKeys \cup HealthCheckDetailKeys \cup StickySessionKeys
            \cup {"scheduler", "health_check", "ssl_certificate_id"}

\* the normalized listener agrees with the original on the key
RoundTripKeeps(k) == SchemaRead(out2)[k] = in1[k]

\* the normalized listener leaves the key unset or at its zero value
RoundTripZero(k) == SchemaRead(out2)[k] = ZeroValue(k)

RoundTripOn(keys) ==
    \A k \in ListenerKeys :
        IF k \in DefinedKeys(in1.lb_protocol)
        THEN k \in keys => RoundTripKeeps(k)
        ELSE RoundTripZero(k)

\* C11: for every valid listener of each of the four protocols, the request
\* built from it, held by the remote side with the same field values and
\* normalized by setListenerAttribute under the protocol, equals the listener
\* on every key defined for the protocol and is zero on every other key.
C11_RoundTrip ==
    pc = "normalized" => RoundTripOn(ListenerKeys)

\* what the round trip does keep: every defined key but health_check_timeout
\* of a tcp or udp listener, which the request carries as
\* HealthCheckConnectTimeout and setListenerAttribute looks up as
\* HealthCheckTimeout
C11_RoundTripButTimeout ==
    pc = "normalized" =>
        /\ in1.lb_protocol \in {Http, Https} => RoundTripOn(ListenerKeys)
        /\ in1.lb_protocol \in {Tcp, Udp} =>
              /\ RoundTripOn(ListenerKeys \ {"health_check_timeout"})
              /\ "health_check_timeout" \notin DOMAIN out2
              /\ args.args.HealthCheckConnectTimeout
                    = in1.health_check_timeout

C11_Witness ==
    /\ pc = "normalized"
    /\ in1.lb_protocol = Udp
    /\ in1.health_check_timeout = 5
    /\ "sticky_session" \notin DOMAIN out2

-----------------------------------------------------------------------------
(* C12: every error of a pass is returned, but a describe's not-found *)

\* the listener block of the pass is over and has returned no error
ListenerBlockPassed == pc \in {"instances", "read"}

\* a conversion of the pass's two differences produced an error
ConversionError ==
    \E m \in Difference(state, desired) \cup Difference(desired, state) :
        ExpandError(m) # NoErr

\* every failed call, and every validation error, has made the pass fail
CallErrorsReturned ==
    /\ \A n \in 1..Len(calls) :
          ~calls[n].ok => /\ pc = "failed"
                          /\ err # NoErr
    /\ ListenerBlockPassed =>
          \A n \in 1..Len(add) : CreateRequest(id, add[n]).err = NoErr

\* a describe that reports no listener of its protocol is no failure and
\* contributes nothing: the state read back holds one listener per port that
\* holds one
NotFoundContributesNothing ==
    (pc = "done" /\ id # "") =>
        /\ err = NoErr
        /\ Cardinality(state)
              = Cardinality({p \in Ports : IsListener(remote[p])})
        /\ \A m \in state :
              /\ IsListener(remote[m["lb_port"]])
              /\ remote[m["lb_port"]].proto = m["lb_protocol"]

C12_ErrorsButConversion ==
    /\ CallErrorsReturned
    /\ NotFoundContributesNothing

-----------------------------------------------------------------------------
(* C13: one listener per port across a pass *)

\* the configured listeners have pairwise distinct ports
DistinctPorts(S) ==
    \A x, y \in S : x["lb_port"] = y["lb_port"] => x = y

\* the pass is about to issue the create call of add[i]
CreateIssued == pc = "create"

DeletesBeforeCreates ==
    \A a, b \in 1..Len(calls) :
        (a < b /\ calls[b].op = "delete") => calls[a].op = "delete"

\* C13: in a pass over a configured set with pairwise distinct ports, begun
\* on the state read from the remote side, every delete is issued before the
\* first create, a create for a port is issued only while the port holds no
\* listener (a listener replaced on its port is deleted first), and every
\* listener set read from the remote side holds at most one listener per
\* port.
C13_OneListenerPerPort ==
    DistinctPorts(desired) =>
        /\ DeletesBeforeCreates
        /\ CreateIssued => ~IsListener(remote[add[i].LoadBalancerPort])
        /\ \A n \in 1..Len(calls) :
              (calls[n].op = "create" /\ calls[n].ok) =>
                  /\ IsListener(remote[calls[n].port])
                  /\ remote[calls[n].port].proto = ProtocolOfApi(calls[n].api)
        /\ DistinctPorts(state)

\* a listener replaced on its port: deleted, then its replacement created
\* and started, and read back
C13_Witness ==
    /\ DistinctPorts(desired)
    /\ pc = "done"
    /\ \E a, b \in 1..Len(calls) :
          /\ a < b
          /\ calls[a].op = "delete" /\ calls[a].ok
          /\ calls[b].op = "create" /\ calls[b].ok
          /\ calls[a].port = calls[b].port
          /\ \E m \in state : m["lb_port"] = calls[b].port

=============================================================================
